---- MODULE Spec2Model ----
(***************************************************************************)
(* Session state machine and update broadcast of the chess/poker game      *)
(* server (src/src/server.ts): the two in-memory maps, the REST handlers   *)
(* and the WebSocket handlers, one action per handler.                     *)
(***************************************************************************)
EXTENDS Integers, Sequences, FiniteSets, TLC

VARIABLES
    games,              \* Map gameId -> GameState (a function on the stored ids)
    playerConnections,  \* Map playerId -> {ws, gameId}, in insertion order
    wsState,            \* transport state of every connection handle
    reply,              \* what the last command answered to its caller
    sent,               \* the updates the last command's broadcast handed to send
    crashed,            \* an exception escaped an event listener
    moves,              \* per session: moves applied to the board so far
    drawn,              \* per session: cards popped from the deck by play-card
    delivered           \* per connection: the updates send has written to it, each
                        \* with the number of the command that emitted it

vars == <<games, playerConnections, wsState, reply, sent, crashed, moves, drawn,
          delivered>>

(***************************************************************************)
(* Bounds of the model.                                                    *)
(***************************************************************************)
MaxMoves == 2
MaxPlays == 1
MaxDraws == 3
RandDen == 6
MaxCommands == 5

(***************************************************************************)
(* Values.                                                                 *)
(***************************************************************************)
BoardSize == 8
DealCount == 3

Colors == {"white", "black"}
Undefined == "<undefined>"
AllGameIds == {"g1", "g2"}
AllConns == {"c1", "c2"}

Truthy(v) == v \notin {Undefined, ""}

Suits == <<"hearts", "diamonds", "clubs", "spades">>
Values == <<"2", "3", "4", "5", "6", "7", "8", "9", "10", "J", "Q", "K", "A">>

NoCard == [suit |-> "none", value |-> "none", revealed |-> FALSE]
Null == [type |-> "null", color |-> "none", position |-> [x |-> 0, y |-> 0],
         card |-> NoCard]

Pos(x, y) == [x |-> x, y |-> y]
\* a position as a request carries it: absent, or a pair of numbers
NoPos == [def |-> FALSE, x |-> 0, y |-> 0]
At(x, y) == [def |-> TRUE, x |-> x, y |-> y]

pieceOrder == <<"rook", "knight", "bishop", "queen", "king", "bishop", "knight", "rook">>

createInitialBoard ==
    [y \in 0..(BoardSize - 1) |->
        [x \in 0..(BoardSize - 1) |->
            CASE y = 0 -> [type |-> pieceOrder[x + 1], color |-> "black",
                           position |-> Pos(x, y), card |-> NoCard]
              [] y = 1 -> [type |-> "pawn", color |-> "black",
                           position |-> Pos(x, y), card |-> NoCard]
              [] y = 6 -> [type |-> "pawn", color |-> "white",
                           position |-> Pos(x, y), card |-> NoCard]
              [] y = 7 -> [type |-> pieceOrder[x + 1], color |-> "white",
                           position |-> Pos(x, y), card |-> NoCard]
              [] OTHER -> Null]]

\* board[y][x] as JavaScript reads it: undefined outside the stored indices
Cell(board, x, y) == IF x \in DOMAIN board[y] THEN board[y][x] ELSE Null
HasRow(board, y) == y \in DOMAIN board
\* board[y][x] = v: an index outside the row is added to it
SetCell(board, x, y, v) ==
    [board EXCEPT ![y] = [k \in (DOMAIN board[y]) \cup {x} |->
                             IF k = x THEN v ELSE board[y][k]]]

\* the unshuffled deck: suits outer, values inner
orderedDeck ==
    [i \in 1..(Len(Suits) * Len(Values)) |->
        [suit |-> Suits[((i - 1) \div Len(Values)) + 1],
         value |-> Values[((i - 1) % Len(Values)) + 1],
         revealed |-> FALSE]]

\* a swap that loses its second assignment
SwapOverwrite(s, i, j) == [s EXCEPT ![i] = s[j]]

\* [deck[i], deck[j]] = [deck[j], deck[i]]
Swap(s, i, j) == [s EXCEPT ![i] = s[j], ![j] = s[i]]

\* Math.random() as the fraction rnd[1]/rnd[2] in [0, 1), the same at every draw
RandomIndex(rnd, i) == (rnd[1] * (i + 1)) \div rnd[2]
Randoms == {<<0, 1>>, <<1, 2>>}
\* every fraction k/d in [0, 1) with a denominator up to RandDen
WideRandoms == {r \in (0..(RandDen - 1)) \X (1..RandDen) : r[1] < r[2]}

\* Fisher-Yates over 0-based indices i = n-1 .. 1 (1-based in the sequence)
RECURSIVE shuffleFrom(_, _, _)
shuffleFrom(deck, i, rnd) ==
    IF i < 1 THEN deck
    ELSE shuffleFrom(Swap(deck, i + 1, RandomIndex(rnd, i) + 1), i - 1, rnd)

shuffleDeck(deck, rnd) == shuffleFrom(deck, Len(deck) - 1, rnd)

createDeck(rnd) == shuffleDeck(orderedDeck, rnd)

\* game.players: an object whose keys keep their insertion order
PlayerOf(players, color) ==
    IF \E i \in 1..Len(players) : players[i].color = color
    THEN players[CHOOSE i \in 1..Len(players) : players[i].color = color].id
    ELSE Undefined

SetPlayer(players, color, id) ==
    IF \E i \in 1..Len(players) : players[i].color = color
    THEN [i \in 1..Len(players) |->
            IF players[i].color = color THEN [color |-> color, id |-> id]
            ELSE players[i]]
    ELSE Append(players, [color |-> color, id |-> id])

\* Object.entries(game.players).find(([color, id]) => id === playerId)?.[0]
FindColor(players, playerId) ==
    LET hits == {i \in 1..Len(players) : players[i].id = playerId}
    IN  IF hits = {} THEN Undefined
        ELSE players[CHOOSE i \in hits : \A j \in hits : i <= j].color

Other(color) == IF color = "white" THEN "black" ELSE "white"

(***************************************************************************)
(* Replies: an HTTP status and error text on the REST surface; on the push *)
(* surface the ERROR message sent back to the sender, or nothing.          *)
(***************************************************************************)
Http(code, error) == [kind |-> "rest", code |-> code, error |-> error]
WsNothing == [kind |-> "ws", code |-> 0, error |-> ""]
WsError(message) == [kind |-> "ws", code |-> 0, error |-> message]
Env == [kind |-> "env", code |-> 0, error |-> ""]

Has(g) == g \in DOMAIN games

(***************************************************************************)
(* broadcastGameUpdate: send to every entry of the session, in the map's   *)
(* order. send is the transport's: on a connection that is no longer open  *)
(* it may throw (fails), and nothing catches that here.                    *)
(***************************************************************************)
RECURSIVE broadcastFrom(_, _, _, _)
broadcastFrom(conns, i, update, fails) ==
    IF i > Len(conns) THEN [sent |-> <<>>, thrown |-> FALSE]
    ELSE IF conns[i].gameId # update.gameId
         THEN broadcastFrom(conns, i + 1, update, fails)
    ELSE IF conns[i].ws \in fails THEN [sent |-> <<>>, thrown |-> TRUE]
    ELSE LET rest == broadcastFrom(conns, i + 1, update, fails)
         IN  [sent |-> <<[ws |-> conns[i].ws, playerId |-> conns[i].playerId,
                          type |-> update.type, gameId |-> update.gameId]>>
                        \o rest.sent,
              thrown |-> rest.thrown]

broadcastGameUpdate(conns, update, fails) == broadcastFrom(conns, 1, update, fails)

Update(type, gameId) == [type |-> type, gameId |-> gameId]

\* a send that writes ahead of what the connection already carries
wsSendAhead(stream, message) == <<message>> \o stream

\* ws.send(message): the message follows what was written to the connection
wsSend(stream, message) == Append(stream, message)

\* the sends of one command, written to their connections in order; seq numbers
\* the commands handled. Nothing is recorded unless a specification starts
\* with the record on.
RECURSIVE written(_, _, _)
written(inbox, deliveries, seq) ==
    IF deliveries = <<>> THEN inbox
    ELSE written([inbox EXCEPT ![Head(deliveries).ws] =
                     wsSend(@, [type |-> Head(deliveries).type,
                                gameId |-> Head(deliveries).gameId,
                                seq |-> seq])],
                 Tail(deliveries), seq)

recorded(d, deliveries) ==
    IF ~d.on THEN d
    ELSE [on |-> TRUE, seq |-> d.seq + 1,
          inbox |-> written(d.inbox, deliveries, d.seq + 1)]

NotRecording == [on |-> FALSE, seq |-> 0, inbox |-> [c \in AllConns |-> <<>>]]
Recording == [on |-> TRUE, seq |-> 0, inbox |-> [c \in AllConns |-> <<>>]]

\* the connections whose send may throw: the ones not open any more
MayFail == {c \in DOMAIN wsState : wsState[c] \in {"closing", "closed"}}

(***************************************************************************)
(* POST /api/games                                                         *)
(***************************************************************************)
newGame(gameId, rnd) ==
    [id |-> gameId,
     players |-> <<>>,
     board |-> createInitialBoard,
     communityCards |-> <<>>,
     currentTurn |-> "white",
     deck |-> createDeck(rnd),
     status |-> "waiting"]

CreateGame(gameId, rnd) ==
    /\ ~crashed
    /\ ~Has(gameId)                   \* uuidv4() returns an unused identifier
    /\ games' = [g \in (DOMAIN games) \cup {gameId} |->
                    IF g = gameId THEN newGame(gameId, rnd) ELSE games[g]]
    /\ moves' = [g \in (DOMAIN games) \cup {gameId} |->
                    IF g = gameId THEN 0 ELSE moves[g]]
    /\ drawn' = [g \in (DOMAIN games) \cup {gameId} |->
                    IF g = gameId THEN 0 ELSE drawn[g]]
    /\ reply' = Http(200, "")
    /\ sent' = <<>>
    /\ UNCHANGED <<playerConnections, wsState, crashed>>
    /\ delivered' = recorded(delivered, sent')

(***************************************************************************)
(* POST /api/games/:gameId/join                                            *)
(***************************************************************************)
Min(a, b) == IF a < b THEN a ELSE b

Reveal(cards) == [i \in 1..Len(cards) |-> [cards[i] EXCEPT !.revealed = TRUE]]

\* the session after an accepted join
joined(game, playerId, color) ==
    LET players == SetPlayer(game.players, color, playerId)
        n == Min(DealCount, Len(game.deck))
    IN  IF Truthy(PlayerOf(players, "white")) /\ Truthy(PlayerOf(players, "black"))
        THEN [game EXCEPT !.players = players,
                          !.status = "active",
                          !.communityCards = Reveal(SubSeq(game.deck, 1, n)),
                          !.deck = SubSeq(game.deck, n + 1, Len(game.deck))]
        ELSE [game EXCEPT !.players = players]

JoinTaken(gameId, color) == Truthy(PlayerOf(games[gameId].players, color))

RestJoin(gameId, playerId, color) ==
    /\ ~crashed
    /\ IF ~Has(gameId)
       THEN /\ reply' = Http(404, "Game not found")
            /\ games' = games
       ELSE IF JoinTaken(gameId, color)
       THEN /\ reply' = Http(400, "Color already taken")
            /\ games' = games
       ELSE /\ reply' = Http(200, "")
            /\ games' = [games EXCEPT ![gameId] = joined(games[gameId], playerId, color)]
    /\ sent' = <<>>
    /\ UNCHANGED <<playerConnections, wsState, crashed, moves, drawn>>
    /\ delivered' = recorded(delivered, sent')

(***************************************************************************)
(* POST /api/games/:gameId/move                                            *)
(***************************************************************************)
\* lines 205-209: the destination is written first, then the source cleared
relocate(board, piece, from, to) ==
    SetCell(SetCell(board, to.x, to.y, [piece EXCEPT !.position = Pos(to.x, to.y)]),
            from.x, from.y, Null)

switchTurn(turn) == IF turn = "white" THEN "black" ELSE "white"

\* how far the handler gets: the reply of a rejection, or "apply"
restMoveVerdict(game, playerId, from, to) ==
    LET playerColor == FindColor(game.players, playerId)
    IN  IF playerColor = Undefined \/ playerColor # game.currentTurn
        THEN Http(400, "Not your turn")
        ELSE IF ~from.def \/ ~HasRow(game.board, from.y)
        THEN Http(500, "TypeError")
        ELSE IF Cell(game.board, from.x, from.y) = Null
                \/ Cell(game.board, from.x, from.y).color # playerColor
        THEN Http(400, "Invalid piece")
        ELSE IF ~to.def \/ ~HasRow(game.board, to.y)
        THEN Http(500, "TypeError")
        ELSE Http(200, "")

restMoved(game, from, to) ==
    [game EXCEPT !.board = relocate(game.board, Cell(game.board, from.x, from.y), from, to),
                 !.currentTurn = switchTurn(game.currentTurn)]

RestMove(gameId, playerId, from, to, fails) ==
    /\ ~crashed
    /\ fails \subseteq MayFail
    /\ Has(gameId) => moves[gameId] < MaxMoves
    /\ IF ~Has(gameId)
       THEN /\ reply' = Http(404, "Game not found")
            /\ UNCHANGED <<games, moves>>
            /\ sent' = <<>>
       ELSE IF restMoveVerdict(games[gameId], playerId, from, to).code # 200
       THEN /\ reply' = restMoveVerdict(games[gameId], playerId, from, to)
            /\ UNCHANGED <<games, moves>>
            /\ sent' = <<>>
       ELSE LET b == broadcastGameUpdate(playerConnections, Update("MOVE", gameId), fails)
            IN  /\ games' = [games EXCEPT ![gameId] = restMoved(games[gameId], from, to)]
                /\ moves' = [moves EXCEPT ![gameId] = @ + 1]
                /\ sent' = b.sent
                /\ reply' = IF b.thrown THEN Http(500, "Error") ELSE Http(200, "")
    /\ UNCHANGED <<playerConnections, wsState, crashed, drawn>>
    /\ delivered' = recorded(delivered, sent')

(***************************************************************************)
(* isValidMove, and the push surface's MOVE_REQUEST                        *)
(***************************************************************************)
InGrid(p) == ~(p.x < 0 \/ p.x > BoardSize - 1 \/ p.y < 0 \/ p.y > BoardSize - 1)

\* "throw" where the code dereferences undefined, else "true" or "false"
isValidMove(game, from, to) ==
    IF ~from.def \/ ~HasRow(game.board, from.y) THEN "throw"
    ELSE IF Cell(game.board, from.x, from.y) = Null THEN "false"
    ELSE IF ~to.def THEN "throw"
    ELSE IF ~InGrid(to) THEN "false"
    ELSE IF Cell(game.board, to.x, to.y) # Null
            /\ Cell(game.board, to.x, to.y).color
                 = Cell(game.board, from.x, from.y).color
    THEN "false"
    ELSE "true"

wsMoved(game, from, to) ==
    [game EXCEPT !.board = relocate(game.board, Cell(game.board, from.x, from.y), from, to)]

WsMoveRequest(ws, gameId, from, to, fails) ==
    /\ ~crashed
    /\ fails \subseteq MayFail
    /\ wsState[ws] = "open"
    /\ Has(gameId) => moves[gameId] < MaxMoves
    /\ IF ~Has(gameId)
       THEN /\ reply' = WsNothing
            /\ UNCHANGED <<games, moves>>
            /\ sent' = <<>>
       ELSE IF isValidMove(games[gameId], from, to) = "throw"
       THEN /\ reply' = WsError("Invalid message format")
            /\ UNCHANGED <<games, moves>>
            /\ sent' = <<>>
       ELSE IF isValidMove(games[gameId], from, to) = "false"
       THEN /\ reply' = WsNothing
            /\ UNCHANGED <<games, moves>>
            /\ sent' = <<>>
       ELSE LET b == broadcastGameUpdate(playerConnections, Update("MOVE", gameId), fails)
            IN  /\ games' = [games EXCEPT ![gameId] = wsMoved(games[gameId], from, to)]
                /\ moves' = [moves EXCEPT ![gameId] = @ + 1]
                /\ sent' = b.sent
                /\ reply' = IF b.thrown THEN WsError("Invalid message format")
                            ELSE WsNothing
    /\ UNCHANGED <<playerConnections, wsState, crashed, drawn>>
    /\ delivered' = recorded(delivered, sent')

(***************************************************************************)
(* POST /api/games/:gameId/play-card and the push surface's                *)
(* CARD_PLAY_REQUEST                                                       *)
(***************************************************************************)
\* a pop that reads the last card and leaves it in the deck
peeked(game) == game

\* deck.pop(): the last card leaves the deck
popped(game) == [game EXCEPT !.deck = SubSeq(game.deck, 1, Len(game.deck) - 1)]
lastCard(game) == game.deck[Len(game.deck)]

\* game.board[piecePosition.y][piecePosition.x] dereferences undefined
cellThrows(game, pos) == ~pos.def \/ ~HasRow(game.board, pos.y)

\* piece.card = { ...card, revealed: true }
attach(game, pos, card) ==
    [game EXCEPT !.board = SetCell(game.board, pos.x, pos.y,
        [Cell(game.board, pos.x, pos.y) EXCEPT !.card = [card EXCEPT !.revealed = TRUE]])]

RestPlayCard(gameId, playerId, piecePosition, fails) ==
    /\ ~crashed
    /\ fails \subseteq MayFail
    /\ IF ~Has(gameId)
       THEN /\ reply' = Http(404, "Game not found")
            /\ UNCHANGED <<games, drawn>>
            /\ sent' = <<>>
       ELSE IF Len(games[gameId].deck) = 0
       THEN /\ reply' = Http(400, "No cards left in deck")
            /\ UNCHANGED <<games, drawn>>
            /\ sent' = <<>>
       ELSE IF cellThrows(games[gameId], piecePosition)
       THEN /\ reply' = Http(500, "TypeError")
            /\ games' = [games EXCEPT ![gameId] = popped(games[gameId])]
            /\ drawn' = [drawn EXCEPT ![gameId] = @ + 1]
            /\ sent' = <<>>
       ELSE LET game == games[gameId]
                b == broadcastGameUpdate(playerConnections, Update("CARD_PLAY", gameId), fails)
            IN  /\ games' = [games EXCEPT ![gameId] =
                                IF Cell(game.board, piecePosition.x, piecePosition.y) # Null
                                THEN attach(popped(game), piecePosition, lastCard(game))
                                ELSE popped(game)]
                /\ drawn' = [drawn EXCEPT ![gameId] = @ + 1]
                /\ sent' = b.sent
                /\ reply' = IF b.thrown THEN Http(500, "Error") ELSE Http(200, "")
    /\ UNCHANGED <<playerConnections, wsState, crashed, moves>>
    /\ delivered' = recorded(delivered, sent')

WsCardPlayRequest(ws, gameId, piecePosition, fails) ==
    /\ ~crashed
    /\ fails \subseteq MayFail
    /\ wsState[ws] = "open"
    /\ IF ~Has(gameId) \/ (Has(gameId) /\ Len(games[gameId].deck) = 0)
       THEN /\ reply' = WsNothing
            /\ UNCHANGED <<games, drawn>>
            /\ sent' = <<>>
       ELSE IF cellThrows(games[gameId], piecePosition)
       THEN /\ reply' = WsError("Invalid message format")
            /\ games' = [games EXCEPT ![gameId] = popped(games[gameId])]
            /\ drawn' = [drawn EXCEPT ![gameId] = @ + 1]
            /\ sent' = <<>>
       ELSE IF Cell(games[gameId].board, piecePosition.x, piecePosition.y) = Null
       THEN /\ reply' = WsNothing
            /\ games' = [games EXCEPT ![gameId] = popped(games[gameId])]
            /\ drawn' = [drawn EXCEPT ![gameId] = @ + 1]
            /\ sent' = <<>>
       ELSE LET game == games[gameId]
                b == broadcastGameUpdate(playerConnections, Update("CARD_PLAY", gameId), fails)
            IN  /\ games' = [games EXCEPT ![gameId] =
                                attach(popped(game), piecePosition, lastCard(game))]
                /\ drawn' = [drawn EXCEPT ![gameId] = @ + 1]
                /\ sent' = b.sent
                /\ reply' = IF b.thrown THEN WsError("Invalid message format")
                            ELSE WsNothing
    /\ UNCHANGED <<playerConnections, wsState, crashed, moves>>
    /\ delivered' = recorded(delivered, sent')

(***************************************************************************)
(* The connection registry: wss.on('connection'), JOIN_GAME, ws.on('close')*)
(***************************************************************************)
Connection(ws) ==
    /\ ~crashed
    /\ wsState[ws] = "none"
    /\ wsState' = [wsState EXCEPT ![ws] = "open"]
    /\ reply' = Env
    /\ sent' = <<>>
    /\ UNCHANGED <<games, playerConnections, crashed, moves, drawn>>
    /\ delivered' = recorded(delivered, sent')

\* the transport starts closing a connection; its close event comes later
HalfClose(ws) ==
    /\ ~crashed
    /\ wsState[ws] = "open"
    /\ wsState' = [wsState EXCEPT ![ws] = "closing"]
    /\ reply' = Env
    /\ sent' = <<>>
    /\ UNCHANGED <<games, playerConnections, crashed, moves, drawn>>
    /\ delivered' = recorded(delivered, sent')

\* Map.set: an existing key keeps its place, a new key goes last
mapSet(conns, playerId, entry) ==
    IF \E i \in 1..Len(conns) : conns[i].playerId = playerId
    THEN [i \in 1..Len(conns) |-> IF conns[i].playerId = playerId THEN entry ELSE conns[i]]
    ELSE Append(conns, entry)

\* Map.delete of the i-th entry
mapDeleteAt(conns, i) == SubSeq(conns, 1, i - 1) \o SubSeq(conns, i + 1, Len(conns))

JoinGame(ws, gameId, playerId, fails) ==
    /\ ~crashed
    /\ fails \subseteq MayFail
    /\ wsState[ws] = "open"
    /\ LET conns == mapSet(playerConnections, playerId,
                           [playerId |-> playerId, ws |-> ws, gameId |-> gameId])
           b == broadcastGameUpdate(conns, Update("PLAYER_JOINED", gameId), fails)
       IN  /\ playerConnections' = conns
           /\ sent' = b.sent
           /\ reply' = IF b.thrown THEN WsError("Invalid message format") ELSE WsNothing
    /\ UNCHANGED <<games, wsState, crashed, moves, drawn>>
    /\ delivered' = recorded(delivered, sent')

\* the first entry, in the map's order, whose ws is this connection (0: none)
firstEntryOf(conns, ws) ==
    LET hits == {i \in 1..Len(conns) : conns[i].ws = ws}
    IN  IF hits = {} THEN 0 ELSE CHOOSE i \in hits : \A j \in hits : i <= j

Close(ws, fails) ==
    /\ ~crashed
    /\ fails \subseteq MayFail \cup {ws}    \* the closed connection's own send too
    /\ wsState[ws] \in {"open", "closing"}
    /\ wsState' = [wsState EXCEPT ![ws] = "closed"]
    /\ reply' = Env
    /\ LET i == firstEntryOf(playerConnections, ws)
       IN  IF i = 0
           THEN /\ UNCHANGED <<playerConnections, crashed>>
                /\ sent' = <<>>
           ELSE LET conns == mapDeleteAt(playerConnections, i)
                    b == broadcastGameUpdate(conns,
                            Update("PLAYER_DISCONNECTED", playerConnections[i].gameId), fails)
                IN  /\ playerConnections' = conns
                    /\ sent' = b.sent
                    /\ crashed' = b.thrown
    /\ UNCHANGED <<games, moves, drawn>>
    /\ delivered' = recorded(delivered, sent')

(***************************************************************************)
(* Specifications.                                                         *)
(***************************************************************************)
Boot ==
    /\ games = <<>>
    /\ playerConnections = <<>>
    /\ wsState = [c \in AllConns |-> "none"]
    /\ reply = Env
    /\ sent = <<>>
    /\ crashed = FALSE
    /\ moves = <<>>
    /\ drawn = <<>>

Init == Boot /\ delivered = NotRecording
\* the same start, with the sends recorded
InitOrder == Boot /\ delivered = Recording

\* the requests the clients of the model send
PlayerIds == {"", "p1", "p2"}
MoveFroms == {At(4, 6), At(4, 1), NoPos}
MoveTos == {At(4, 4), At(4, 6), At(4, 1), At(8, 4), At(4, 8), NoPos}
CardCells == {At(4, 6), At(4, 4), NoPos}

\* one session, every shape of request
Next ==
    \/ \E rnd \in Randoms : CreateGame("g1", rnd)
    \/ \E p \in PlayerIds, c \in Colors : RestJoin("g1", p, c)
    \/ \E p \in {"p1", "p2"}, from \in MoveFroms, to \in MoveTos :
          RestMove("g1", p, from, to, {})
    \/ \E from \in MoveFroms, to \in MoveTos : WsMoveRequest("c1", "g1", from, to, {})
    \/ \E pos \in CardCells :
          /\ Has("g1") => drawn["g1"] < MaxPlays
          /\ RestPlayCard("g1", "p1", pos, {})
    \/ \E pos \in CardCells :
          /\ Has("g1") => drawn["g1"] < MaxPlays
          /\ WsCardPlayRequest("c1", "g1", pos, {})
    \/ Connection("c1")

Spec == Init /\ [][Next]_vars

\* two sessions and two connections, fixed requests: the registry and the broadcast
NextNet ==
    \/ \E g \in AllGameIds : CreateGame(g, <<0, 1>>)
    \/ \E g \in AllGameIds : RestJoin(g, "p1", "white")
    \/ \E g \in AllGameIds, fails \in SUBSET MayFail :
          RestMove(g, "p1", At(4, 6), At(4, 4), fails)
    \/ \E c \in AllConns : Connection(c)
    \/ \E c \in AllConns : HalfClose(c)
    \/ \E c \in AllConns, g \in AllGameIds, p \in {"p1", "p2"}, fails \in SUBSET MayFail :
          JoinGame(c, g, p, fails)
    \/ \E c \in AllConns : \E fails \in SUBSET (MayFail \cup {c}) : Close(c, fails)

SpecNet == Init /\ [][NextNet]_vars

\* one session played until its deck runs out
NextDeck ==
    \/ \E rnd \in Randoms : CreateGame("g1", rnd)
    \/ RestJoin("g1", "p1", "white")
    \/ RestJoin("g1", "p2", "black")
    \/ \E pos \in {At(4, 6), NoPos} : RestPlayCard("g1", "p1", pos, {})

SpecDeck == Init /\ [][NextDeck]_vars

\* one session with registered connections: card plays on both surfaces
NextCards ==
    \/ CreateGame("g1", <<0, 1>>)
    \/ \E c \in AllConns : Connection(c)
    \/ \E c \in AllConns, p \in {"p1", "p2"} : JoinGame(c, "g1", p, {})
    \/ \E pos \in CardCells :
          /\ Has("g1") => drawn["g1"] < MaxDraws
          /\ RestPlayCard("g1", "p1", pos, {})
    \/ \E c \in AllConns, pos \in CardCells :
          /\ Has("g1") => drawn["g1"] < MaxDraws
          /\ WsCardPlayRequest(c, "g1", pos, {})

SpecCards == Init /\ [][NextCards]_vars

\* sessions created from every random source, and a first join
NextCreate ==
    \/ \E g \in AllGameIds, rnd \in WideRandoms : CreateGame(g, rnd)
    \/ \E g \in AllGameIds, c \in Colors : RestJoin(g, "p1", c)

SpecCreate == Init /\ [][NextCreate]_vars

\* two sessions and two connections, the first MaxCommands commands, sends recorded
NextOrder ==
    \/ \E g \in AllGameIds :
          delivered.seq < MaxCommands /\ CreateGame(g, <<0, 1>>)
    \/ \E g \in AllGameIds :
          delivered.seq < MaxCommands /\ RestJoin(g, "p1", "white")
    \/ \E g \in AllGameIds, fails \in SUBSET MayFail :
          delivered.seq < MaxCommands /\ RestMove(g, "p1", At(4, 6), At(4, 4), fails)
    \/ \E c \in AllConns, g \in AllGameIds :
          delivered.seq < MaxCommands /\ WsMoveRequest(c, g, At(4, 1), At(4, 3), {})
    \/ \E g \in AllGameIds :
          delivered.seq < MaxCommands /\ RestPlayCard(g, "p1", At(4, 6), {})
    \/ \E c \in AllConns : delivered.seq < MaxCommands /\ Connection(c)
    \/ \E c \in AllConns : delivered.seq < MaxCommands /\ HalfClose(c)
    \/ \E c \in AllConns, g \in AllGameIds, p \in {"p1", "p2"}, fails \in SUBSET MayFail :
          delivered.seq < MaxCommands /\ JoinGame(c, g, p, fails)
    \/ \E c \in AllConns : \E fails \in SUBSET (MayFail \cup {c}) :
          delivered.seq < MaxCommands /\ Close(c, fails)

SpecOrder == InitOrder /\ [][NextOrder]_vars

(***************************************************************************)
(* The claims.                                                             *)
(***************************************************************************)

\* C1: in every session currentTurn is white iff the number of moves applied
\* to its board so far (on either surface) is even.
C1_TurnParity ==
    \A g \in DOMAIN games : (games[g].currentTurn = "white") <=> (moves[g] % 2 = 0)

\* a step of the model that applied a move from `from` to `to` in session g
RestMoveApplied(g, from, to) ==
    /\ \E p \in {"p1", "p2"} : RestMove(g, p, from, to, {})
    /\ reply'.code = 200
WsMoveApplied(g, from, to) ==
    /\ Has(g)
    /\ WsMoveRequest("c1", g, from, to, {})
    /\ moves'[g] = moves[g] + 1

\* what the claim says the board and the turn look like after the move
MovePost(g, from, to) ==
    LET before == games[g].board
        after == games'[g].board
        piece == Cell(before, from.x, from.y)
    IN  /\ Cell(after, from.x, from.y) = Null
        /\ Cell(after, to.x, to.y) = [piece EXCEPT !.position = Pos(to.x, to.y)]
        /\ \A y \in DOMAIN after : \A x \in DOMAIN after[y] :
              (<<x, y>> # <<to.x, to.y>> /\ after[y][x] # Null)
                  => (x \in DOMAIN before[y] /\ before[y][x] = after[y][x])
        /\ games'[g].currentTurn = Other(games[g].currentTurn)

\* C2: every accepted move, for any from and to (from = to and an occupied
\* destination included), leaves the source cell empty, the moved piece in the
\* destination cell with position = to, no other cell with a new piece, and
\* currentTurn flipped once.
C2_MoveRelocates ==
    [][\A from \in MoveFroms, to \in MoveTos :
          (RestMoveApplied("g1", from, to) \/ WsMoveApplied("g1", from, to))
              => MovePost("g1", from, to)]_vars

\* C3: a REST move by a player whose colour is not currentTurn (or who has no
\* colour) is answered Not your turn and leaves the session as it was, and no
\* step on either surface moves a piece of the colour that is not on turn.
C3_NotYourTurn ==
    [][/\ \A p \in {"p1", "p2"}, from \in MoveFroms, to \in MoveTos :
             (/\ Has("g1")
              /\ FindColor(games["g1"].players, p) # games["g1"].currentTurn
              /\ RestMove("g1", p, from, to, {}))
                 => (reply' = Http(400, "Not your turn") /\ games' = games)
       /\ \A from \in MoveFroms, to \in MoveTos :
             (RestMoveApplied("g1", from, to) \/ WsMoveApplied("g1", from, to))
                 => Cell(games["g1"].board, from.x, from.y).color
                        = games["g1"].currentTurn]_vars

\* C4: a join for a colour whose slot holds a player id is answered Color
\* already taken and leaves players as they were; a slot that holds an id
\* holds the same id in every later state.
C4_SlotKept ==
    [][/\ \A p \in PlayerIds, c \in Colors :
             (/\ Has("g1")
              /\ PlayerOf(games["g1"].players, c) # Undefined
              /\ RestJoin("g1", p, c))
                 => (/\ reply' = Http(400, "Color already taken")
                     /\ games'["g1"].players = games["g1"].players)
       /\ \A g \in DOMAIN games : \A c \in Colors :
             PlayerOf(games[g].players, c) # Undefined
                 => PlayerOf(games'[g].players, c) = PlayerOf(games[g].players, c)]_vars

\* an accepted join that fills colour c while the other colour is already filled
SecondJoin(g, c) ==
    /\ Has(g)
    /\ reply' = Http(200, "")
    /\ PlayerOf(games[g].players, c) = Undefined
    /\ PlayerOf(games[g].players, Other(c)) # Undefined
    /\ PlayerOf(games'[g].players, c) # Undefined

\* C5: the accepted join that assigns the second colour makes the session
\* active with exactly 3 community cards, all revealed, and a deck exactly 3
\* cards shorter than before the join.
C5_SecondJoinDeals ==
    [][\A g \in DOMAIN games : \A c \in Colors :
          SecondJoin(g, c)
              => (/\ games'[g].status = "active"
                  /\ Len(games'[g].communityCards) = DealCount
                  /\ \A i \in 1..Len(games'[g].communityCards) :
                        games'[g].communityCards[i].revealed
                  /\ Len(games'[g].deck) = Len(games[g].deck) - DealCount)]_vars

\* C6: a session is active iff both colour slots hold a player id.
C6_ActiveIffBoth ==
    \A g \in DOMAIN games :
        (games[g].status = "active")
            <=> (/\ PlayerOf(games[g].players, "white") # Undefined
                 /\ PlayerOf(games[g].players, "black") # Undefined)

\* C7: a command answered with an error (REST) or with ERROR (push) leaves
\* every session as it was.
C7_RejectedUnchanged ==
    [][((reply'.kind = "rest" /\ reply'.code # 200)
        \/ (reply'.kind = "ws" /\ reply'.error # ""))
          => games' = games]_vars

\* the close event of connection c is handled in this step
CloseStep(c) == wsState[c] \in {"open", "closing"} /\ wsState'[c] = "closed"

\* the entries of a registry that are registered for session g, in its order
EntriesOf(conns, g) == SelectSeq(conns, LAMBDA e : e.gameId = g)
\* whom the deliveries went to, in order
Recipients(deliveries) ==
    [k \in 1..Len(deliveries) |->
        [playerId |-> deliveries[k].playerId, ws |-> deliveries[k].ws]]
Keys(conns) ==
    [k \in 1..Len(conns) |-> [playerId |-> conns[k].playerId, ws |-> conns[k].ws]]

\* C8: when a connection closes, exactly the registry entries bound to it are
\* removed, every remaining connection of the same session is sent exactly one
\* PLAYER_DISCONNECTED, and nothing is sent to another session or to the closed
\* connection.
C8_CloseNotifies ==
    [][\A c \in AllConns :
          (CloseStep(c) /\ firstEntryOf(playerConnections, c) # 0)
              => LET S == playerConnections[firstEntryOf(playerConnections, c)].gameId
                 IN  /\ playerConnections'
                            = SelectSeq(playerConnections, LAMBDA e : e.ws # c)
                     /\ \A i \in 1..Len(playerConnections') :
                           playerConnections'[i].gameId = S
                               => Cardinality({k \in 1..Len(sent') :
                                      /\ sent'[k].ws = playerConnections'[i].ws
                                      /\ sent'[k].type = "PLAYER_DISCONNECTED"}) = 1
                     /\ \A k \in 1..Len(sent') :
                           sent'[k].gameId = S /\ sent'[k].ws # c]_vars

\* the step emits an update for session g: a move applied to g, a JOIN_GAME for
\* g, or the close of a connection whose entry is registered for g
EmitsFor(g) ==
    \/ Has(g) /\ moves'[g] = moves[g] + 1
    \/ /\ reply'.kind = "ws"
       /\ \E c \in AllConns, p \in {"p1", "p2"}, fails \in SUBSET AllConns :
             JoinGame(c, g, p, fails)
    \/ \E c \in AllConns :
          /\ CloseStep(c)
          /\ firstEntryOf(playerConnections, c) # 0
          /\ playerConnections[firstEntryOf(playerConnections, c)].gameId = g

\* C9: an update emitted for session g is delivered to every registry entry of
\* g and to no other entry, and the step leaves every other session as it was.
C9_BroadcastScope ==
    [][\A g \in AllGameIds :
          EmitsFor(g)
              => (/\ Recipients(sent') = Keys(EntriesOf(playerConnections', g))
                  /\ \A k \in 1..Len(sent') : sent'[k].gameId = g
                  /\ \A h \in (DOMAIN games) \ {g} :
                        h \in DOMAIN games' /\ games'[h] = games[h])]_vars

\* C10: when a send fails during the broadcast of an applied REST move, every
\* other entry of the session is still sent the update and the move is still
\* answered with success.
C10_SendFailureIsolated ==
    [][\A g \in AllGameIds, fails \in SUBSET AllConns :
          (/\ Has(g)
           /\ moves'[g] = moves[g] + 1
           /\ \E i \in 1..Len(playerConnections) :
                 playerConnections[i].gameId = g /\ playerConnections[i].ws \in fails
           /\ RestMove(g, "p1", At(4, 6), At(4, 4), fails))
              => (/\ \A i \in 1..Len(playerConnections) :
                        (/\ playerConnections[i].gameId = g
                         /\ playerConnections[i].ws \notin fails)
                            => \E k \in 1..Len(sent') :
                                  sent'[k].playerId = playerConnections[i].playerId
                  /\ reply' = Http(200, ""))]_vars

\* C11: every play-card step that takes a card from the deck of session g, on
\* either surface and whether or not the target cell holds a piece, broadcasts
\* exactly one CARD_PLAY update to the registry entries of g, so that the
\* CARD_PLAY updates emitted for g always number the cards drawn from it.
C11_DrawBroadcasts ==
    [][\A g \in DOMAIN games :
          drawn'[g] = drawn[g] + 1
              => (/\ Recipients(sent') = Keys(EntriesOf(playerConnections, g))
                  /\ \A k \in 1..Len(sent') :
                        sent'[k].type = "CARD_PLAY" /\ sent'[k].gameId = g)]_vars

\* C12: in a session that both colours have joined, the REST move of the test
\* suite (the id of the player on turn, no from and no to) is answered with
\* success.
C12_TurnPlayerMoveSucceeds ==
    [][\A p \in {"p1", "p2"} :
          (/\ reply'.kind = "rest"
           /\ Has("g1")
           /\ games["g1"].status = "active"
           /\ FindColor(games["g1"].players, p) = games["g1"].currentTurn
           /\ RestMove("g1", p, NoPos, NoPos, {}))
              => reply'.code = 200]_vars

\* C14: every board has 8 rows of 8 cells, and every piece on it is stored in
\* the cell its position field names, inside the grid.
C14_PiecesInGrid ==
    \A g \in DOMAIN games :
        /\ DOMAIN games[g].board = 0..(BoardSize - 1)
        /\ \A y \in DOMAIN games[g].board :
              /\ DOMAIN games[g].board[y] = 0..(BoardSize - 1)
              /\ \A x \in DOMAIN games[g].board[y] :
                    games[g].board[y][x] # Null
                        => games[g].board[y][x].position = Pos(x, y)

\* C18: a player id is bound to at most one colour slot of a session.
C18_OneColourPerPlayer ==
    \A g \in DOMAIN games :
        \A i, j \in 1..Len(games[g].players) :
            (/\ Truthy(games[g].players[i].id)
             /\ games[g].players[i].id = games[g].players[j].id) => i = j

\* C19: the board and currentTurn of a session change only while its status
\* is active.
C19_WaitingIsFrozen ==
    [][\A g \in DOMAIN games :
          (g \in DOMAIN games' /\ games[g].status # "active")
              => (/\ games'[g].board = games[g].board
                  /\ games'[g].currentTurn = games[g].currentTurn)]_vars

\* C20: no registry entry refers to a connection whose close event has been
\* handled, whatever JOIN_GAME messages the connection sent before, and no
\* update is sent to such a connection.
C20_ClosedUnregistered ==
    /\ \A i \in 1..Len(playerConnections) :
          wsState[playerConnections[i].ws] # "closed"
    /\ \A k \in 1..Len(sent) : wsState[sent[k].ws] # "closed"

\* the pieces of a standard chess opening position, row by row
StandardRow(y) ==
    LET back == <<"rook", "knight", "bishop", "queen", "king", "bishop", "knight", "rook">>
    IN  [x \in 0..7 |->
            IF y \in {0, 7}
            THEN [type |-> back[x + 1], color |-> IF y = 0 THEN "black" ELSE "white",
                  position |-> [x |-> x, y |-> y], card |-> NoCard]
            ELSE IF y \in {1, 6}
            THEN [type |-> "pawn", color |-> IF y = 1 THEN "black" ELSE "white",
                  position |-> [x |-> x, y |-> y], card |-> NoCard]
            ELSE Null]

PiecesOf(board, color) ==
    {<<x, y>> \in (0..7) \X (0..7) : board[y][x] # Null /\ board[y][x].color = color}

FreshSession(game) ==
    /\ DOMAIN game.board = 0..7
    /\ \A y \in 0..7 : game.board[y] = StandardRow(y)
    /\ Cardinality(PiecesOf(game.board, "white")) = 16
    /\ Cardinality(PiecesOf(game.board, "black")) = 16
    /\ Len(game.deck) = 52
    /\ \A i, j \in 1..Len(game.deck) :
          (game.deck[i].suit = game.deck[j].suit /\ game.deck[i].value = game.deck[j].value)
              => i = j
    /\ \A i \in 1..Len(game.deck) : ~game.deck[i].revealed
    /\ game.players = <<>>
    /\ game.communityCards = <<>>
    /\ game.status = "waiting"
    /\ game.currentTurn = "white"

\* C13: every newly created session has the 32 pieces of the standard layout
\* (16 per colour) and all other cells empty, a deck of 52 cards with pairwise
\* distinct (suit, value) whatever the shuffle drew, no players, no community
\* cards, status waiting and currentTurn white.
C13_FreshSession ==
    [][\A g \in AllGameIds :
          (g \notin DOMAIN games /\ g \in DOMAIN games') => FreshSession(games'[g])]_vars

\* a session just created with a deck the shuffle has reordered
C13_Witness ==
    /\ Has("g1")
    /\ reply = Http(200, "")
    /\ games["g1"].players = <<>>
    /\ games["g1"].deck # orderedDeck
    /\ FreshSession(games["g1"])

\* where a session keeps cards: deck and communityCards slots, pieces with a card
Holders(game) ==
    {<<"deck", i>> : i \in 1..Len(game.deck)}
        \cup {<<"community", i>> : i \in 1..Len(game.communityCards)}
        \cup {<<"piece", 100 * y + x>> : <<x, y>> \in
                  {c \in (0..8) \X (0..8) :
                      /\ c[2] \in DOMAIN game.board
                      /\ c[1] \in DOMAIN game.board[c[2]]
                      /\ game.board[c[2]][c[1]] # Null
                      /\ game.board[c[2]][c[1]].card # NoCard}}
CardAt(game, h) ==
    CASE h[1] = "deck" -> game.deck[h[2]]
      [] h[1] = "community" -> game.communityCards[h[2]]
      [] OTHER -> game.board[h[2] \div 100][h[2] % 100].card
CardKey(card) == <<card.suit, card.value>>
CardKeys(game) == {CardKey(CardAt(game, h)) : h \in Holders(game)}
DeckKeys(game) == {CardKey(game.deck[i]) : i \in 1..Len(game.deck)}

\* C17: in every session no (suit, value) pair occurs twice among the deck,
\* communityCards and the cards attached to pieces; no step puts a card into a
\* deck, so a card that left a deck never reappears in it and no deck grows.
C17_CardsConserved ==
    [][\A g \in DOMAIN games' :
          /\ Cardinality(CardKeys(games'[g])) = Cardinality(Holders(games'[g]))
          /\ g \in DOMAIN games
                => (/\ Len(games'[g].deck) <= Len(games[g].deck)
                    /\ DeckKeys(games'[g]) \subseteq DeckKeys(games[g]))]_vars

\* cards have left the deck both ways: three dealt at the second join, several
\* played, the last of them attached to the pawn on (4,6)
C17_Witness ==
    /\ Has("g1")
    /\ Len(games["g1"].communityCards) = DealCount
    /\ Len(games["g1"].deck) < 45
    /\ games["g1"].board[6][4].card # NoCard

====
